---------------------------- MODULE Spec2Model ----------------------------
(***************************************************************************)
(* Data link channels of libpnet: the BPF backend (src/datalink/bpf.rs,   *)
(* FreeBSD and OS X) and the WinPcap backend (src/datalink/winpcap.rs).   *)
(*                                                                         *)
(* The model follows one channel: channel() opening and configuring the   *)
(* device call by call, then the Sender (build_and_send, send_to), the    *)
(* Receiver's iterator (next) and the drops of the two owners.  The       *)
(* operating system is the environment: every device call draws its       *)
(* outcome from the outcomes that call can report.                        *)
(*                                                                         *)
(* Buffers are sequences of bytes (0..255), indexed from 1: the byte at   *)
(* Rust offset k is buf[k + 1].                                            *)
(***************************************************************************)
EXTENDS Integers, Sequences, FiniteSets, TLC

VARIABLES
    target_os,      \* "freebsd" | "macos" (bpf.rs) or "windows" (winpcap.rs)
    config,         \* the Config given to channel()
    deviceFault,    \* how the device misreports the header of the last record of a read
    pc,             \* position of channel(): the next device call, or "done"
    fd,             \* the descriptor / adapter handle channel() obtained, -1: none
    dev,            \* the device: "none" | "open" | "closed"
    closes,         \* how many times the device was closed
    steps,          \* the device-control calls channel() made, in order
    chanResult,     \* "none" | "ok" | "err": what channel() returned
    loopback,       \* the loopback flag of Sender and Receiver
    dlt,            \* the link-layer type BIOCGDLT reported, "none" before it
    read_to,        \* the read timeout handed to the device, None when none was
    opens,          \* the open calls get_fd made: the node tried, whether it opened
    refs,           \* strong count of the Arc around the device handle
    senderAlive,    \* the Sender has not been dropped
    receiverAlive,  \* the Receiver has not been dropped
    write_buffer,   \* the Sender's write buffer
    fd_set,         \* bpf: the Sender's fd_set, the descriptors whose bit is set
    pktLength,      \* winpcap: (*self.packet.packet).Length of the write packet
    call,           \* the Sender call in progress or last finished
    wire,           \* what that call did: populate, select and write, in order
    read_buffer,    \* the Receiver's read buffer
    iterating,      \* an iterator of the Receiver exists
    packets,        \* the iterator's queue of (start, len)
    last,           \* what the last next() did and returned
    scanned,        \* the last scan: the bytes the read reported, where the cursor ended
    kernelBuf,      \* packets the device captured and has not yet handed to a read
    reads,          \* device reads issued so far
    ioAfterClose    \* a read, write or select was issued on a closed device

vars == <<target_os, config, deviceFault, pc, fd, dev, closes, steps, chanResult,
          loopback, dlt, read_to, opens, refs, senderAlive, receiverAlive, write_buffer,
          fd_set, pktLength, call, wire, read_buffer, iterating, packets, last, scanned,
          kernelBuf, reads, ioAfterClose>>

\* what channel() learns from and hands to the device
setupVars == <<dlt, read_to, opens>>
chanVars == <<pc, fd, dev, closes, steps, chanResult, loopback, setupVars>>
ownerVars == <<refs, senderAlive, receiverAlive>>
envVars == <<target_os, config, deviceFault>>
senderVars == <<write_buffer, fd_set, pktLength, call, wire>>
receiverVars == <<read_buffer, iterating, packets, last, scanned, reads>>
runtimeVars == <<ownerVars, senderVars, receiverVars, kernelBuf, ioAfterClose>>

-----------------------------------------------------------------------------
(* Values *)

None == <<>>
Some(x) == <<x>>

Zeros(n) == [i \in 1..n |-> 0]

\* EthernetPacket::minimum_packet_size(): the size of an Ethernet header
EthHeaderSize == 14

IsBpf == target_os \in {"freebsd", "macos"}
IsWinPcap == target_os = "windows"

-----------------------------------------------------------------------------
(* channel(): bpf.rs lines 97-242 and winpcap.rs lines 89-173 *)

\* how many /dev/bpfN nodes exist in the model
NumNodes == 2

\* macos get_fd: for i in 0..attempts, open /dev/bpf<i>; the first that opens
RECURSIVE get_fd_probe(_, _, _)
get_fd_probe(i, attempts, busy) ==
    IF i >= attempts THEN -1
    ELSE IF i < NumNodes /\ i \notin busy THEN i
    ELSE get_fd_probe(i + 1, attempts, busy)

get_fd(attempts, busy) == get_fd_probe(0, attempts, busy)

\* a probe that goes on to the last node whatever attempts says
RECURSIVE get_fd_opens_all(_, _, _)
get_fd_opens_all(i, attempts, busy) ==
    IF i >= NumNodes THEN <<>>
    ELSE IF i \notin busy THEN <<[node |-> i, ok |-> TRUE]>>
    ELSE <<[node |-> i, ok |-> FALSE]>> \o get_fd_opens_all(i + 1, attempts, busy)

\* the open calls of that loop, from node i on: one per turn, until one opens
RECURSIVE get_fd_opens(_, _, _)
get_fd_opens(i, attempts, busy) ==
    IF i >= attempts THEN <<>>
    ELSE IF i < NumNodes /\ i \notin busy THEN <<[node |-> i, ok |-> TRUE]>>
    ELSE <<[node |-> i, ok |-> FALSE]>> \o get_fd_opens(i + 1, attempts, busy)

\* libc::close(fd) / PacketCloseAdapter(adapter)
CloseDevice ==
    /\ dev' = "closed"
    /\ closes' = closes + 1

\* return Err(io::Error::last_os_error())
ReturnErr ==
    /\ chanResult' = "err"
    /\ pc' = "done"

\* a device-control call whose failure is noted while channel() goes on
BpfIoctlGoesOn(name, next) ==
    /\ IsBpf
    /\ pc = name
    /\ steps' = Append(steps, name)
    /\ pc' = next
    /\ \E ok \in BOOLEAN :
         IF ok
         THEN UNCHANGED <<dev, closes, chanResult>>
         ELSE /\ CloseDevice
              /\ chanResult' = "err"
    /\ UNCHANGED <<fd, loopback, setupVars, envVars, runtimeVars>>

\* a BPF device-control call of channel(): on -1, close(fd) and return the error
BpfIoctl(name, next) ==
    /\ IsBpf
    /\ pc = name
    /\ steps' = Append(steps, name)
    /\ \E ok \in BOOLEAN :
         IF ok
         THEN /\ pc' = next
              /\ UNCHANGED <<dev, closes, chanResult>>
         ELSE /\ CloseDevice
              /\ ReturnErr
    /\ UNCHANGED <<fd, loopback, setupVars, envVars, runtimeVars>>

\* a WinPcap driver call of channel() that returns on 0 without closing
WinPcapCall(name, next) ==
    /\ IsWinPcap
    /\ pc = name
    /\ steps' = Append(steps, name)
    /\ \E ok \in BOOLEAN :
         IF ok
         THEN /\ pc' = next
              /\ UNCHANGED chanResult
         ELSE ReturnErr
    /\ UNCHANGED <<fd, dev, closes, loopback, setupVars, envVars, runtimeVars>>

\* bpf.rs 143-146
GetFd ==
    /\ IsBpf
    /\ pc = "get_fd"
    /\ steps' = Append(steps, "open")
    /\ \E busy \in SUBSET (0..(NumNodes - 1)), opened \in BOOLEAN :
         LET node == IF target_os = "macos"
                     THEN get_fd(config.bpf_fd_attempts, busy)
                     ELSE IF opened THEN 0 ELSE -1
         IN /\ opens' = IF target_os = "macos"
                       THEN get_fd_opens(0, config.bpf_fd_attempts, busy)
                       ELSE <<[node |-> 0, ok |-> node # -1]>>
            /\ IF node = -1
               THEN /\ ReturnErr
                    /\ UNCHANGED <<fd, dev>>
               ELSE /\ fd' = node + 3
                    /\ dev' = "open"
                    /\ pc' = "BIOCSBLEN"
                    /\ UNCHANGED chanResult
    /\ UNCHANGED <<closes, loopback, dlt, read_to, envVars, runtimeVars>>

\* bpf.rs 152-161
SetBufferLength == BpfIoctl("BIOCSBLEN", "BIOCSETIF")

\* bpf.rs 163-170
SetInterface == BpfIoctl("BIOCSETIF", "BIOCIMMEDIATE")

\* bpf.rs 172-181
SetImmediate == BpfIoctl("BIOCIMMEDIATE", "BIOCGDLT")

\* bpf.rs 183-198: the device type decides the loopback flag
GetDlt ==
    /\ IsBpf
    /\ pc = "BIOCGDLT"
    /\ steps' = Append(steps, "BIOCGDLT")
    /\ \E ok \in BOOLEAN, reported \in {"DLT_NULL", "DLT_EN10MB"} :
         IF ok
         THEN /\ dlt' = reported
              /\ loopback' = (reported = "DLT_NULL")
              /\ pc' = IF reported = "DLT_NULL" THEN "set_feedback" ELSE "BIOCSHDRCMPLT"
              /\ UNCHANGED <<dev, closes, chanResult>>
         ELSE /\ CloseDevice
              /\ ReturnErr
              /\ UNCHANGED <<loopback, dlt>>
    /\ UNCHANGED <<fd, read_to, opens, envVars, runtimeVars>>

\* bpf.rs 125-141, 204-206: BIOCFEEDBACK on freebsd, nothing on macos
SetFeedback ==
    /\ IsBpf
    /\ pc = "set_feedback"
    /\ IF target_os = "freebsd"
       THEN /\ steps' = Append(steps, "BIOCFEEDBACK")
            /\ \E ok \in BOOLEAN :
                 IF ok
                 THEN /\ pc' = "set_timeout"
                      /\ UNCHANGED <<dev, closes, chanResult>>
                 ELSE /\ CloseDevice
                      /\ ReturnErr
       ELSE /\ pc' = "set_timeout"
            /\ UNCHANGED <<steps, dev, closes, chanResult>>
    /\ UNCHANGED <<fd, loopback, setupVars, envVars, runtimeVars>>

\* bpf.rs 208-215
SetHeaderComplete == BpfIoctl("BIOCSHDRCMPLT", "set_timeout")

\* bpf.rs 80-92, 218-221: BIOCSRTIMEOUT when a read timeout is configured
SetReadTimeout ==
    /\ IsBpf
    /\ pc = "set_timeout"
    /\ IF config.read_timeout # None
       THEN /\ steps' = Append(steps, "BIOCSRTIMEOUT")
            /\ read_to' = config.read_timeout
            /\ \E ok \in BOOLEAN :
                 IF ok
                 THEN /\ pc' = "construct"
                      /\ UNCHANGED <<dev, closes, chanResult>>
                 ELSE /\ CloseDevice
                      /\ ReturnErr
       ELSE /\ pc' = "construct"
            /\ UNCHANGED <<steps, dev, closes, chanResult, read_to>>
    /\ UNCHANGED <<fd, loopback, dlt, opens, envVars, runtimeVars>>

\* winpcap.rs 97-103
OpenAdapter ==
    /\ IsWinPcap
    /\ pc = "PacketOpenAdapter"
    /\ steps' = Append(steps, "open")
    /\ \E ok \in BOOLEAN :
         IF ok
         THEN /\ fd' = 3
              /\ dev' = "open"
              /\ pc' = "PacketSetHwFilter"
              /\ UNCHANGED chanResult
         ELSE /\ ReturnErr
              /\ UNCHANGED <<fd, dev>>
    /\ UNCHANGED <<closes, loopback, setupVars, envVars, runtimeVars>>

\* winpcap.rs 105-108
SetHwFilter == WinPcapCall("PacketSetHwFilter", "PacketSetBuff")

\* winpcap.rs 110-114
SetBuff == WinPcapCall("PacketSetBuff", "PacketSetReadTimeout")

\* the largest i32
I32Max == 2147483647

\* x as i32, for x of a wider unsigned type below 2^32: the same 32 bits, signed
AsI32(x) == IF x <= I32Max THEN x ELSE (x - I32Max - 1) - I32Max - 1

\* winpcap.rs 117-120: the value given to PacketSetReadTimeout,
\* read_to.as_secs() * 1_000_000 + (read_to.subsec_nanos() / 1_000_000), or 0, as i32
winpcap_read_to(timeout) ==
    AsI32(IF timeout = None THEN 0
          ELSE timeout[1].secs * 1000000 + timeout[1].nanos \div 1000000)

\* winpcap.rs 116-124: the timeout is computed and handed to the driver; on 0 the
\* call returns without closing
SetReadTimeoutWin ==
    /\ IsWinPcap
    /\ pc = "PacketSetReadTimeout"
    /\ steps' = Append(steps, "PacketSetReadTimeout")
    /\ read_to' = Some(winpcap_read_to(config.read_timeout))
    /\ \E ok \in BOOLEAN :
         IF ok
         THEN /\ pc' = "PacketSetMinToCopy"
              /\ UNCHANGED chanResult
         ELSE ReturnErr
    /\ UNCHANGED <<fd, dev, closes, loopback, dlt, opens, envVars, runtimeVars>>

\* winpcap.rs 126-130
SetMinToCopy == WinPcapCall("PacketSetMinToCopy", "AllocateReadPacket")

\* winpcap.rs 132-144: on a null packet, PacketCloseAdapter and return the error
AllocateReadPacket ==
    /\ IsWinPcap
    /\ pc = "AllocateReadPacket"
    /\ steps' = Append(steps, "AllocateReadPacket")
    /\ \E ok \in BOOLEAN :
         IF ok
         THEN /\ pc' = "AllocateWritePacket"
              /\ UNCHANGED <<dev, closes, chanResult>>
         ELSE /\ CloseDevice
              /\ ReturnErr
    /\ UNCHANGED <<fd, loopback, setupVars, envVars, runtimeVars>>

\* winpcap.rs 146-159
AllocateWritePacket ==
    /\ IsWinPcap
    /\ pc = "AllocateWritePacket"
    /\ steps' = Append(steps, "AllocateWritePacket")
    /\ \E ok \in BOOLEAN :
         IF ok
         THEN /\ pc' = "construct"
              /\ UNCHANGED <<dev, closes, chanResult>>
         ELSE /\ CloseDevice
              /\ ReturnErr
    /\ UNCHANGED <<fd, loopback, setupVars, envVars, runtimeVars>>

\* a read buffer of the configured size whatever the device type
allocated_read_buffer_size_plain == config.read_buffer_size

\* bpf.rs 194-201: the read buffer gets room for an Ethernet header on loopback
allocated_read_buffer_size ==
    IF IsBpf /\ loopback
    THEN config.read_buffer_size + EthHeaderSize
    ELSE config.read_buffer_size

\* bpf.rs 223-241, winpcap.rs 161-172: the Arc and its two owners
Construct ==
    /\ pc = "construct"
    /\ pc' = "done"
    /\ chanResult' = "ok"
    /\ refs' = 2
    /\ senderAlive' = TRUE
    /\ receiverAlive' = TRUE
    /\ write_buffer' = Zeros(config.write_buffer_size)
    /\ fd_set' = IF IsBpf THEN {fd} ELSE {}
    /\ pktLength' = config.write_buffer_size
    /\ read_buffer' = Zeros(allocated_read_buffer_size)
    /\ UNCHANGED <<fd, dev, closes, steps, loopback, setupVars, envVars>>
    /\ UNCHANGED <<call, wire, iterating, packets, last, scanned, reads, kernelBuf,
                   ioAfterClose>>

\* the device calls of channel() in bpf.rs
BpfChannelStep ==
    \/ GetFd
    \/ SetBufferLength
    \/ SetInterface
    \/ SetImmediate
    \/ GetDlt
    \/ SetFeedback
    \/ SetHeaderComplete
    \/ SetReadTimeout

\* the driver calls of channel() in winpcap.rs
WinPcapChannelStep ==
    \/ OpenAdapter
    \/ SetHwFilter
    \/ SetBuff
    \/ SetReadTimeoutWin
    \/ SetMinToCopy
    \/ AllocateReadPacket
    \/ AllocateWritePacket

ChannelStep ==
    \/ BpfChannelStep
    \/ WinPcapChannelStep
    \/ Construct

-----------------------------------------------------------------------------
(* The capture records of a read: struct bpf_hdr and BPF_WORDALIGN of       *)
(* bindings::bpf, which bpf.rs 380-386 and winpcap.rs 281-286 read through  *)

\* BPF_ALIGNMENT: sizeof(long) on freebsd, 4 on macos and under WinPcap
WordAlignment == IF target_os = "freebsd" THEN 8 ELSE 4

\* BPF_WORDALIGN(x): x rounded up to the alignment
BPF_WORDALIGN(x) == ((x + (WordAlignment - 1)) \div WordAlignment) * WordAlignment

\* offsets of bh_caplen (u32) and bh_hdrlen (u16) in struct bpf_hdr, after bh_tstamp
CaplenOffset == IF target_os = "freebsd" THEN 16 ELSE 8
HdrlenOffset == IF target_os = "freebsd" THEN 24 ELSE 16

\* the header length the device reports in bh_hdrlen
DeviceHdrLen ==
    IF target_os = "freebsd" THEN 26 ELSE IF target_os = "macos" THEN 18 ELSE 20

\* the byte at Rust offset off of buf; past the end of buf, 0
ByteAt(buf, off) == IF off + 1 <= Len(buf) THEN buf[off + 1] ELSE 0

\* (*packet).bh_caplen and (*packet).bh_hdrlen for the record at offset p (little endian)
bh_caplen(buf, p) ==
    ByteAt(buf, p + CaplenOffset) + 256 * ByteAt(buf, p + CaplenOffset + 1)
    + 65536 * ByteAt(buf, p + CaplenOffset + 2)
    + 16777216 * ByteAt(buf, p + CaplenOffset + 3)

bh_hdrlen(buf, p) ==
    ByteAt(buf, p + HdrlenOffset) + 256 * ByteAt(buf, p + HdrlenOffset + 1)

\* the header the device writes before data: bh_caplen = bh_datalen = Len(data)
HeaderBytes(hdrlen, caplen) ==
    [j \in 1..hdrlen |->
        IF j = CaplenOffset + 1 \/ j = CaplenOffset + 5 THEN caplen % 256
        ELSE IF j = HdrlenOffset + 1 THEN hdrlen % 256
        ELSE 0]

\* the bytes between the end of one record and the next record's aligned start
Padding(n) == [j \in 1..n |-> 255]

\* the device lays the pending packets out back to back, each record starting
\* word-aligned; the last one is not padded
RECURSIVE RecordBytes(_)
RecordBytes(pkts) ==
    IF pkts = <<>> THEN <<>>
    ELSE LET rec == HeaderBytes(DeviceHdrLen, Len(pkts[1])) \o pkts[1]
         IN IF Len(pkts) = 1 THEN rec
            ELSE rec \o Padding(BPF_WORDALIGN(Len(rec)) - Len(rec)) \o RecordBytes(Tail(pkts))

\* the largest number of packets the kernel holds for the Receiver
MaxPending == 3

\* the 4-byte header the OS puts before a packet captured on loopback (AF_INET)
AFHeader == <<2, 0, 0, 0>>

\* the kernel keeps a packet when its buffer, of the length BIOCSBLEN /
\* PacketSetBuff set (bpf.rs 152-155, winpcap.rs 111), has room for the record
Fits(kbuf) ==
    /\ Len(kbuf) <= MaxPending
    /\ BPF_WORDALIGN(Len(RecordBytes(kbuf))) <= config.read_buffer_size

\* a length field that runs past the bytes of any read of the model
LongLen == 120

\* the captured length of a packet the device cuts short
ShortLen == 2

\* the pending packets as the device hands them over: with "caplen_short" the last
\* one is cut to ShortLen bytes
Snapped(kbuf) ==
    IF deviceFault = "caplen_short" /\ kbuf # <<>>
    THEN [kbuf EXCEPT ![Len(kbuf)] = SubSeq(kbuf[Len(kbuf)], 1, ShortLen)]
    ELSE kbuf

\* the bytes of a read whose last record starts at offset p, with the length field
\* of that record's header that deviceFault names set to LongLen
Misreport(bytes, p) ==
    [j \in 1..Len(bytes) |->
        IF deviceFault = "caplen_long" /\ j = p + CaplenOffset + 1 THEN LongLen
        ELSE IF deviceFault = "hdrlen_long" /\ j = p + HdrlenOffset + 1 THEN LongLen
        ELSE bytes[j]]

\* the bytes one read brings for the pending packets kbuf (libc::read at bpf.rs
\* 368-372, PacketReceivePacket at winpcap.rs 270-272)
DeviceBytes(kbuf) ==
    IF kbuf = <<>> THEN <<>>
    ELSE LET pkts == Snapped(kbuf)
             bytes == RecordBytes(pkts)
         IN Misreport(bytes, Len(bytes) - DeviceHdrLen - Len(pkts[Len(pkts)]))

-----------------------------------------------------------------------------
(* The Sender: bpf.rs lines 244-333, winpcap.rs lines 175-236 *)

\* usize arithmetic wraps at this modulus (a small stand-in for 2^64)
UsizeModulus == 256

\* the frame a caller builds: a byte pattern that differs by tag and by position
Frame(tag, n) == [j \in 1..n |-> (tag * 37 + j) % 256]

\* let len = num_packets * packet_size  (bpf.rs 259, winpcap.rs 188)
BatchLen(num_packets, packet_size) == (num_packets * packet_size) % UsizeModulus

\* what the capacity check compares len with:
\* self.write_buffer.len() (bpf.rs 260), (*self.packet.packet).Length (winpcap.rs 189)
Capacity == IF IsBpf THEN Len(write_buffer) ELSE pktLength

\* if len >= capacity { None }  (bpf.rs 260-261, winpcap.rs 189-190)
TooLarge(len, capacity) == len >= capacity

\* the chunks of write_buffer[..len].chunks_mut(packet_size): chunk k starts at k * packet_size
ChunkStart(k, packet_size) == k * packet_size

ChunkLen(k, packet_size, len) ==
    IF len - k * packet_size < packet_size THEN len - k * packet_size ELSE packet_size

\* func(eh): the caller fills the chunk at offset start with data
Populate(wb, start, data) ==
    [j \in 1..Len(wb) |->
        IF j > start /\ j <= start + Len(data) THEN data[j - start] ELSE wb[j]]

\* the header bytes dropped from a write: the Ethernet header on loopback (bpf.rs 265-269)
SendOffset == IF IsBpf /\ loopback THEN EthHeaderSize ELSE 0

\* a send that hands the device one byte less
WrittenBytesShort(wb, start, clen, packet_size) ==
    IF IsBpf
    THEN SubSeq(wb, start + SendOffset + 1, start + clen - 1)
    ELSE SubSeq(wb, 1, packet_size - 1)

\* the bytes one send hands to the device.
\* bpf.rs 287-289: write(fd, chunk.as_ptr().offset(offset), chunk.len() - offset);
\* winpcap.rs 203-210: Length = packet_size; PacketSendPacket sends Buffer[0 .. Length]
WrittenBytes(wb, start, clen, packet_size) ==
    IF IsBpf
    THEN SubSeq(wb, start + SendOffset + 1, start + clen)
    ELSE SubSeq(wb, 1, packet_size)

\* bpf.rs 275-284: select reports -1 (error), 0 (the timeout fired) or 1 (ready);
\* only -1 ends the call
SelectFails(sel) == sel = -1

\* write reports -1 on error (bpf.rs 291), PacketSendPacket reports 0 (winpcap.rs 216)
WriteFails(wr) == IF IsBpf THEN wr = -1 ELSE wr = 0

\* the first argument of select (bpf.rs 276, 313): descriptors below it are examined
SelectNfds == 1

\* how many descriptor bits select copies in and writes back: the bytes that hold
\* nfds bits on freebsd, the words that hold them on macos
SelectCopiedBits == IF target_os = "freebsd" THEN 8 ELSE 32

\* what the readiness wait of one frame can report (bpf.rs 275-282 and 312-318):
\* -1 on an error; 0 when the timeout fires, which takes a timeout; 1 when a
\* descriptor of fd_set that select examines is ready.  winpcap.rs has no
\* readiness wait.
SelectOutcomes ==
    IF IsBpf
    THEN {-1} \cup (IF config.write_timeout = None THEN {} ELSE {0})
              \cup (IF \E d \in fd_set : d < SelectNfds THEN {1} ELSE {})
    ELSE {1}

WriteOutcomes == IF IsBpf THEN {-1, 1} ELSE {0, 1}

\* select(1, &mut self.fd_set, null, null, timeout): fd_set is given as the set to
\* watch for reading, no set is given to watch for writing
SelectOps(sel) ==
    IF IsBpf
    THEN <<[op |-> "select", ret |-> sel, nfds |-> SelectNfds,
            readfds |-> "fd_set", writefds |-> "null"]>>
    ELSE <<>>

\* fd_set after the waits among ops: a select that does not fail writes the ready
\* descriptors back over the bits it copied in
AfterSelect(set, ops) ==
    IF \E i \in 1..Len(ops) : ops[i].op = "select" /\ ops[i].ret # -1
    THEN {d \in set : d >= SelectCopiedBits
                      \/ (d < SelectNfds /\ \E i \in 1..Len(ops) :
                                               ops[i].op = "select" /\ ops[i].ret = 1)}
    ELSE set

\* one frame: wait for readiness, then write (bpf.rs 275-294, winpcap.rs 202-218).
\* The device operations issued and whether the frame ended the call in an error.
SendFrame(bytes, slot, sel, wr) ==
    IF IsBpf /\ SelectFails(sel)
    THEN [ops |-> SelectOps(sel), failed |-> TRUE]
    ELSE [ops |-> SelectOps(sel)
                  \o <<[op |-> "write", slot |-> slot, bytes |-> bytes, ret |-> wr]>>,
          failed |-> WriteFails(wr)]

\* build_and_send before its first chunk (bpf.rs 259-270, winpcap.rs 188-196):
\* the capacity check; chunks_mut panics on a chunk size of 0; no chunk, no work
BeginResult(num_packets, packet_size, capacity) ==
    IF TooLarge(BatchLen(num_packets, packet_size), capacity) THEN "None"
    ELSE IF packet_size = 0 THEN "panic"
    ELSE IF BatchLen(num_packets, packet_size) = 0 THEN "Ok"
    ELSE "running"

\* one turn of the loop over the chunks (bpf.rs 270-295, winpcap.rs 196-219), for
\* chunk k of a batch of len bytes: MutableEthernetPacket::new(chunk).unwrap()
\* panics on a chunk shorter than an Ethernet header; then populate, wait, write
ChunkResult(wb, k, packet_size, len, data, sel, wr) ==
    LET start == ChunkStart(k, packet_size)
        clen == ChunkLen(k, packet_size, len)
        filled == Populate(wb, start, SubSeq(data, 1, clen))
        sent == SendFrame(WrittenBytes(filled, start, clen, packet_size), k + 1, sel, wr)
    IN IF clen < EthHeaderSize
       THEN [wb |-> wb, ops |-> <<>>, result |-> "panic"]
       ELSE [wb |-> filled,
             ops |-> <<[op |-> "populate", slot |-> k + 1]>> \o sent.ops,
             result |-> IF sent.failed THEN "Err"
                        ELSE IF start + clen >= len THEN "Ok"
                        ELSE "running"]

\* the bytes of the writes among ops that the device accepted
Accepted(ops) ==
    SelectSeq(ops, LAMBDA o : o.op = "write" /\ ~WriteFails(o.ret))

\* on loopback the device hands a written frame back to its reader, behind the
\* OS's 4-byte header, when it has room for it
Echo(kbuf, ops) ==
    IF IsBpf /\ loopback /\ Accepted(ops) # <<>>
       /\ Fits(Append(kbuf, AFHeader \o Accepted(ops)[1].bytes))
    THEN Append(kbuf, AFHeader \o Accepted(ops)[1].bytes)
    ELSE kbuf

\* how many calls the Sender makes in one behaviour
MaxCalls == 2

\* the state of a Sender call: its arguments, its place in the loop (k), its
\* result ("running" until it returns), and what the environment drew for its
\* last frame (sel, wr); wb0 is the write buffer when the call began
CallRecord(kind, num_packets, packet_size, tag, k, result, sel, wr, wb0, no) ==
    [kind |-> kind, num_packets |-> num_packets, packet_size |-> packet_size,
     tag |-> tag, k |-> k, result |-> result, sel |-> sel, wr |-> wr,
     wb0 |-> wb0, no |-> no]

\* the Sender has made no call yet
NoCall == CallRecord("none", 0, 0, 0, 0, "none", 1, 1, <<>>, 0)

SenderIdle ==
    /\ chanResult = "ok"
    /\ senderAlive
    /\ call.result # "running"
    /\ call.no < MaxCalls

\* the start of build_and_send(num_packets, packet_size, func), where func writes
\* Frame(tag + k, ..) into chunk k  (bpf.rs 254-270, winpcap.rs 183-196)
Begin(kind, num_packets, packet_size, tag) ==
    /\ call' = CallRecord(kind, num_packets, packet_size, tag, 0,
                          BeginResult(num_packets, packet_size, Capacity),
                          1, 1, write_buffer, call.no + 1)
    /\ wire' = <<>>
    /\ UNCHANGED <<write_buffer, fd_set, pktLength, kernelBuf, ioAfterClose>>

BuildAndSend(num_packets, packet_size, tag) ==
    /\ SenderIdle
    /\ Begin("build_and_send", num_packets, packet_size, tag)
    /\ UNCHANGED <<envVars, chanVars, ownerVars, receiverVars>>

\* a send that returns at once on an error, the packet's Length still packet_size
LengthKeptOnError(old_len, packet_size, ret) ==
    IF ret = 0 THEN packet_size ELSE old_len

\* winpcap.rs 203-214: old_len = Length; Length = packet_size; ret = PacketSendPacket;
\* Length = old_len, before ret is looked at: the packet's Length after one send
LengthAfterSend(old_len, packet_size, ret) == old_len

\* the next chunk of the running call
SendChunk ==
    /\ call.result = "running"
    /\ \E sel \in SelectOutcomes, wr \in WriteOutcomes :
         LET r == ChunkResult(write_buffer, call.k, call.packet_size,
                              BatchLen(call.num_packets, call.packet_size),
                              Frame(call.tag + call.k, call.packet_size), sel, wr)
         IN /\ write_buffer' = r.wb
            /\ fd_set' = AfterSelect(fd_set, r.ops)
            /\ wire' = wire \o r.ops
            /\ call' = [call EXCEPT !.k = call.k + 1, !.result = r.result,
                                    !.sel = sel, !.wr = wr]
            /\ pktLength' = IF IsWinPcap /\ r.ops # <<>>
                            THEN LengthAfterSend(pktLength, call.packet_size, wr)
                            ELSE pktLength
            /\ kernelBuf' = Echo(kernelBuf, r.ops)
            /\ ioAfterClose' = (ioAfterClose \/ (r.ops # <<>> /\ dev # "open"))
    /\ UNCHANGED <<envVars, chanVars, ownerVars, receiverVars>>

\* send_to(packet, _dst) with packet = Frame(tag, n).
\* bpf.rs 300-332: wait and write the packet's own bytes, nothing else;
\* winpcap.rs 224-235: build_and_send(1, packet.len(), clone_from(packet))
SendTo(tag, n) ==
    /\ SenderIdle
    /\ IF IsBpf
       THEN \E sel \in SelectOutcomes, wr \in WriteOutcomes :
              LET sent == SendFrame(SubSeq(Frame(tag, n), SendOffset + 1, n), 1, sel, wr)
              IN /\ call' = CallRecord("send_to", 1, n, tag, 1,
                                       IF sent.failed THEN "Err" ELSE "Ok",
                                       sel, wr, write_buffer, call.no + 1)
                 /\ wire' = sent.ops
                 /\ fd_set' = AfterSelect(fd_set, sent.ops)
                 /\ kernelBuf' = Echo(kernelBuf, sent.ops)
                 /\ ioAfterClose' = (ioAfterClose \/ dev # "open")
                 /\ UNCHANGED <<write_buffer, pktLength>>
       ELSE Begin("send_to", 1, n, tag)
    /\ UNCHANGED <<envVars, chanVars, ownerVars, receiverVars>>

-----------------------------------------------------------------------------
(* The Receiver and its iterator: bpf.rs lines 335-398, winpcap.rs 241-297 *)

\* bpf.rs 361-365: (header_size, buffer_offset) is (4, 14) on loopback, else (0, 0)
header_size == IF IsBpf /\ loopback THEN 4 ELSE 0
buffer_offset == IF IsBpf /\ loopback THEN EthHeaderSize ELSE 0

\* let buffer = &mut self.pc.read_buffer[buffer_offset..]  (bpf.rs 367)
BufferOf(rb) == SubSeq(rb, buffer_offset + 1, Len(rb))

\* the read stores n bytes at the start of buffer
StoreRead(rb, bytes) ==
    [j \in 1..Len(rb) |->
        IF j > buffer_offset /\ j <= buffer_offset + Len(bytes)
        THEN bytes[j - buffer_offset] ELSE rb[j]]

\* a scan that queues each record ahead of the ones found before it
RECURSIVE ScanLifo(_, _, _, _)
ScanLifo(buffer, ptr, end, queue) ==
    IF ptr < end
    THEN LET start == ptr + bh_hdrlen(buffer, ptr)
             caplen == bh_caplen(buffer, ptr)
             offset == bh_hdrlen(buffer, ptr) + bh_caplen(buffer, ptr)
         IN ScanLifo(buffer, ptr + BPF_WORDALIGN(offset), end,
                     <<(<<start + header_size,
                          (caplen - header_size) % UsizeModulus>>)>> \o queue)
    ELSE queue

\* the scan of the bytes read (bpf.rs 376-388, winpcap.rs 277-288): from ptr, while
\* ptr < end, queue (start + header_size, bh_caplen - header_size) and move ptr on
\* by BPF_WORDALIGN(bh_hdrlen + bh_caplen); the subtraction is one of usize
RECURSIVE Scan(_, _, _, _)
Scan(buffer, ptr, end, queue) ==
    IF ptr < end
    THEN LET start == ptr + bh_hdrlen(buffer, ptr)
             caplen == bh_caplen(buffer, ptr)
             offset == bh_hdrlen(buffer, ptr) + bh_caplen(buffer, ptr)
         IN Scan(buffer, ptr + BPF_WORDALIGN(offset), end,
                 Append(queue, <<start + header_size,
                                 (caplen - header_size) % UsizeModulus>>))
    ELSE queue

\* where the cursor of that scan ends: the first ptr that is not below end
RECURSIVE ScanCursor(_, _, _)
ScanCursor(buffer, ptr, end) ==
    IF ptr < end
    THEN ScanCursor(buffer,
                    ptr + BPF_WORDALIGN(bh_hdrlen(buffer, ptr) + bh_caplen(buffer, ptr)),
                    end)
    ELSE ptr

\* no scan yet
NoScan == [nread |-> 0, cursor |-> 0]

\* whether the read's result sends next() back with an error:
\* bpf.rs 373-374: only len > 0 goes on; winpcap.rs 273-276: only ret = 0 returns,
\* whatever ulBytesReceived is
ReadFails(ret, nbytes) == IF IsBpf THEN ~(nbytes > 0) ELSE ret = 0

\* a next() that leaves the bytes before the payload as they were read
ZeroHeaderKept(rb, start) == rb

\* a next() that zeroes the bytes behind the place of the fake Ethernet header
ZeroHeaderAhead(rb, start) ==
    [j \in 1..Len(rb) |->
        IF j > start + buffer_offset /\ j <= start + 2 * buffer_offset THEN 0 ELSE rb[j]]

\* bpf.rs 392-395: the bytes that become the fake Ethernet header are zeroed
ZeroHeader(rb, start) ==
    [j \in 1..Len(rb) |->
        IF j > start /\ j <= start + buffer_offset THEN 0 ELSE rb[j]]

\* a frame that leaves out the room of the synthesized header
FrameViewShort(rb, start, len) == SubSeq(rb, start + 1, start + len)

\* the frame next() returns for the queue entry (start, len):
\* &self.pc.read_buffer[start .. start + len + buffer_offset]  (bpf.rs 390-396),
\* Buffer[start .. start + len]  (winpcap.rs 290-295)
FrameView(rb, start, len) == SubSeq(rb, start + 1, start + len + buffer_offset)

\* len += buffer_offset  (bpf.rs 391), in usize
FrameLen(len) == (len + buffer_offset) % UsizeModulus

\* bytes that lie behind the end of the buffer
Garbage == {0, 255}

\* what next() returns for the popped entry (start, len).
\* bpf.rs 393-396: the two slices of read_buffer panic when they leave the buffer,
\* EthernetPacket::new(..).unwrap() panics on less than an Ethernet header.
\* winpcap.rs 291-295: slice::from_raw_parts is not checked: past the end of the
\* buffer it reads whatever lies there, or faults.
FrameOutcomes(rb, start, len) ==
    LET panic == [result |-> "panic", frame |-> <<>>]
        inside == IF start < Len(rb) THEN SubSeq(rb, start + 1, Len(rb)) ELSE <<>>
    IN IF FrameLen(len) < EthHeaderSize THEN {panic}
       ELSE IF start + FrameLen(len) <= Len(rb)
            THEN {[result |-> "Ok", frame |-> FrameView(rb, start, len)]}
       ELSE IF IsBpf THEN {panic}
       ELSE {panic} \cup
            {[result |-> "Ok",
              frame |-> inside \o [j \in 1..(FrameLen(len) - Len(inside)) |-> g]] :
             g \in Garbage}

\* how many device reads the Receiver issues in one behaviour
MaxReads == 2

\* what one next() did: its result, whether it read the device and what the read
\* brought (batch: the packets of the last read, idx: how many of them were
\* delivered), and the frame it returned
NextRecord(result, didRead, batch, idx, start, len, frame) ==
    [result |-> result, didRead |-> didRead, batch |-> batch, idx |-> idx,
     start |-> start, len |-> len, frame |-> frame]

\* the iterator has returned nothing yet
NoNext == NextRecord("none", FALSE, <<>>, 0, 0, 0, <<>>)

\* fn iter(): a new iterator with an empty queue (bpf.rs 342-349, winpcap.rs 248-255)
Iter ==
    /\ chanResult = "ok"
    /\ receiverAlive
    /\ ~iterating
    /\ iterating' = TRUE
    /\ packets' = <<>>
    /\ last' = NoNext
    /\ UNCHANGED <<read_buffer, scanned, reads, kernelBuf, ioAfterClose>>
    /\ UNCHANGED <<envVars, chanVars, ownerVars, senderVars>>

\* a next() that returns the first entry of the queue and leaves it queued
DeliverKeeps(rb, queue, didRead, batch, idx) ==
    /\ read_buffer' = rb
    /\ packets' = queue
    /\ last' = IF queue = <<>>
               THEN NextRecord("panic", didRead, batch, idx, 0, 0, <<>>)
               ELSE NextRecord("Ok", didRead, batch, idx + 1, queue[1][1],
                               FrameLen(queue[1][2]),
                               FrameView(rb, queue[1][1], queue[1][2]))

\* pop_front().unwrap() and the return of the frame (bpf.rs 390-396, winpcap.rs 290-295)
Deliver(rb, queue, didRead, batch, idx) ==
    IF queue = <<>>
    THEN /\ last' = NextRecord("panic", didRead, batch, idx, 0, 0, <<>>)
         /\ read_buffer' = rb
         /\ packets' = queue
    ELSE LET start == queue[1][1]
             len == queue[1][2]
             zeroed == IF start + buffer_offset <= Len(rb) THEN ZeroHeader(rb, start)
                       ELSE rb
         IN /\ read_buffer' = zeroed
            /\ packets' = Tail(queue)
            /\ \E got \in FrameOutcomes(zeroed, start, len) :
                 last' = NextRecord(got.result, didRead, batch,
                                    IF got.result = "Ok" THEN idx + 1 ELSE idx,
                                    start, FrameLen(len), got.frame)

\* fn next() with a queue that holds something: no device call
NextQueued ==
    /\ chanResult = "ok"
    /\ receiverAlive
    /\ iterating
    /\ packets # <<>>
    /\ Deliver(read_buffer, packets, FALSE, last.batch, last.idx)
    /\ UNCHANGED <<iterating, scanned, reads, kernelBuf, ioAfterClose>>
    /\ UNCHANGED <<envVars, chanVars, ownerVars, senderVars>>

\* what the device read of next() can report: failure; the packets the device
\* holds; or, with none held and a read timeout configured, the expiry of the
\* timeout: read returns 0, PacketReceivePacket returns TRUE with no bytes received.
\* With no packet and no timeout the read blocks.
ReadOutcomes ==
    {"fail"} \cup (IF kernelBuf # <<>> THEN {"data"}
                   ELSE IF config.read_timeout # None THEN {"timeout"} ELSE {})

\* fn next() with an empty queue: one device read, the scan, the first frame
NextRead ==
    /\ chanResult = "ok"
    /\ receiverAlive
    /\ iterating
    /\ packets = <<>>
    /\ reads < MaxReads
    /\ reads' = reads + 1
    /\ ioAfterClose' = (ioAfterClose \/ dev # "open")
    /\ \E outcome \in ReadOutcomes :
         LET bytes == IF outcome = "data" THEN DeviceBytes(kernelBuf) ELSE <<>>
             ret == IF outcome = "fail" THEN (IF IsBpf THEN -1 ELSE 0) ELSE 1
             filled == StoreRead(read_buffer, bytes)
         IN IF ReadFails(ret, Len(bytes))
            THEN /\ last' = NextRecord("Err", TRUE, <<>>, 0, 0, 0, <<>>)
                 /\ UNCHANGED <<read_buffer, packets, scanned, kernelBuf>>
            ELSE /\ kernelBuf' = <<>>
                 /\ scanned' = [nread |-> Len(bytes),
                                cursor |-> ScanCursor(BufferOf(filled), 0, Len(bytes))]
                 /\ Deliver(filled, Scan(BufferOf(filled), 0, Len(bytes), <<>>),
                            TRUE, Snapped(kernelBuf), 0)
    /\ UNCHANGED iterating
    /\ UNCHANGED <<envVars, chanVars, ownerVars, senderVars>>

\* a packet arrives at the interface and the device captures it: an Ethernet
\* frame, or on loopback the OS's 4-byte header and the payload
CapturedData(tag, n) ==
    IF IsBpf /\ loopback THEN AFHeader \o Frame(tag, n - EthHeaderSize) ELSE Frame(tag, n)

Capture(tag, n) ==
    /\ chanResult = "ok"
    /\ dev = "open"
    /\ Fits(Append(kernelBuf, CapturedData(tag, n)))
    /\ kernelBuf' = Append(kernelBuf, CapturedData(tag, n))
    /\ UNCHANGED <<ioAfterClose, envVars, chanVars, ownerVars, senderVars, receiverVars>>

-----------------------------------------------------------------------------
(* The owners of the device handle *)

\* impl Drop for WinPcapAdapter: PacketCloseAdapter (winpcap.rs 34-40)
WinPcapAdapterDrop == CloseDevice

\* the drop of internal::FileDesc closes the descriptor
FileDescDrop == CloseDevice

\* a handle that every owner closes when it is dropped
ArcDropCloses ==
    /\ refs' = refs - 1
    /\ IF IsWinPcap THEN WinPcapAdapterDrop ELSE FileDescDrop

\* the drop of one of the two Arc clones (bpf.rs 223-236, winpcap.rs 161-168): the
\* last one drops the handle
ArcDrop ==
    /\ refs' = refs - 1
    /\ IF refs = 1
       THEN IF IsWinPcap THEN WinPcapAdapterDrop ELSE FileDescDrop
       ELSE UNCHANGED <<dev, closes>>

\* the Sender is dropped; it is borrowed for the length of a call
DropSender ==
    /\ chanResult = "ok"
    /\ senderAlive
    /\ call.result # "running"
    /\ senderAlive' = FALSE
    /\ ArcDrop
    /\ UNCHANGED <<receiverAlive, pc, fd, steps, chanResult, loopback, setupVars>>
    /\ UNCHANGED <<envVars, senderVars, receiverVars, kernelBuf, ioAfterClose>>

\* the iterator is dropped, and its queue with it
DropIter ==
    /\ iterating
    /\ iterating' = FALSE
    /\ packets' = <<>>
    /\ UNCHANGED <<read_buffer, last, scanned, reads, kernelBuf, ioAfterClose>>
    /\ UNCHANGED <<envVars, chanVars, ownerVars, senderVars>>

\* the Receiver is dropped; an iterator borrows it
DropReceiver ==
    /\ chanResult = "ok"
    /\ receiverAlive
    /\ ~iterating
    /\ receiverAlive' = FALSE
    /\ ArcDrop
    /\ UNCHANGED <<senderAlive, pc, fd, steps, chanResult, loopback, setupVars>>
    /\ UNCHANGED <<envVars, senderVars, receiverVars, kernelBuf, ioAfterClose>>

-----------------------------------------------------------------------------
(* Initial states: channel() has just been called *)

\* a read or write timeout of one second
OneSecond == [secs |-> 1, nanos |-> 0]

\* what the device can do to the last record of a read: nothing, report a captured
\* length or a header length that runs past the bytes read, or cut the capture short
DeviceFaults == {"none", "caplen_long", "caplen_short", "hdrlen_long"}

InitDevice(oses, configs, faults) ==
    /\ target_os \in oses
    /\ config \in configs
    /\ deviceFault \in faults
    /\ dlt = "none"
    /\ read_to = None
    /\ opens = <<>>
    /\ scanned = NoScan
    /\ pc = IF target_os = "windows" THEN "PacketOpenAdapter" ELSE "get_fd"
    /\ fd = -1
    /\ dev = "none"
    /\ closes = 0
    /\ steps = <<>>
    /\ chanResult = "none"
    /\ loopback = FALSE
    /\ refs = 0
    /\ senderAlive = FALSE
    /\ receiverAlive = FALSE
    /\ write_buffer = <<>>
    /\ fd_set = {}
    /\ pktLength = 0
    /\ call = NoCall
    /\ wire = <<>>
    /\ read_buffer = <<>>
    /\ iterating = FALSE
    /\ packets = <<>>
    /\ last = NoNext
    /\ kernelBuf = <<>>
    /\ reads = 0
    /\ ioAfterClose = FALSE

\* a device whose records are as captured
InitWith(oses, configs) == InitDevice(oses, configs, {"none"})

AllOses == {"freebsd", "macos", "windows"}

\* the largest bpf_fd_attempts of the model
MaxAttempts == 2

\* a read timeout of half a second
HalfSecond == [secs |-> 0, nanos |-> 500000000]

ChannelConfigs ==
    [write_buffer_size : {48},
     read_buffer_size : {48},
     read_timeout : {None, Some(OneSecond), Some(HalfSecond)},
     write_timeout : {None, Some(OneSecond)},
     bpf_fd_attempts : 0..MaxAttempts]

InitChannel == InitWith(AllOses, ChannelConfigs)

NextChannel == ChannelStep

\* channel() alone, on the three platforms
SpecChannel == InitChannel /\ [][NextChannel]_vars

\* C1: in channel() of both backends, when a configuration step fails after the
\* device was opened, channel() returns the error with the device closed: no
\* execution ends in an error with the device still open.
C1_SetupErrorClosesDevice ==
    (pc = "done" /\ chanResult = "err") => dev # "open"

\* C22: the probe of the OS X get_fd ends within the configured bound: it opens
\* the nodes 0, 1, 2, .. in that order, makes at most bpf_fd_attempts open calls,
\* stops at the first node that opens and uses it; when none of the first
\* bpf_fd_attempts nodes opens (also with bpf_fd_attempts = 0) channel() returns an
\* error and has made no configuration step.
C22_ProbeWithinAttempts ==
    (target_os = "macos" /\ steps # <<>>)
    => /\ Len(opens) <= config.bpf_fd_attempts
       /\ \A i \in 1..Len(opens) :
            /\ opens[i].node = i - 1
            /\ opens[i].ok => i = Len(opens)
       /\ IF opens # <<>> /\ opens[Len(opens)].ok
          THEN /\ fd = opens[Len(opens)].node + 3
               /\ dev # "none"
          ELSE /\ Len(opens) = config.bpf_fd_attempts
               /\ fd = -1 /\ dev = "none"
               /\ pc = "done" /\ chanResult = "err"
               /\ steps = <<"open">>

\* C22 happens: node 0 did not open, node 1 did, and channel() went on with it
C22_Witness ==
    /\ target_os = "macos" /\ chanResult = "ok"
    /\ config.bpf_fd_attempts = 2
    /\ Len(opens) = 2 /\ ~opens[1].ok /\ opens[2].ok

\* the place of a device-control step in the order of the BPF channel()
Rank(step) ==
    CASE step = "open" -> 1
      [] step = "BIOCSBLEN" -> 2
      [] step = "BIOCSETIF" -> 3
      [] step = "BIOCIMMEDIATE" -> 4
      [] step = "BIOCGDLT" -> 5
      [] step \in {"BIOCFEEDBACK", "BIOCSHDRCMPLT"} -> 6
      [] step = "BIOCSRTIMEOUT" -> 7

\* the steps made so far were made in that order, the buffer length before the
\* binding; a successful channel() made the first five, and the header-complete
\* flag exactly when the device is not loopback
StepsInOrder ==
    /\ \A i, j \in 1..Len(steps) : i < j => Rank(steps[i]) < Rank(steps[j])
    /\ \A j \in 1..Len(steps) :
         steps[j] = "BIOCSETIF" => \E i \in 1..(j - 1) : steps[i] = "BIOCSBLEN"
    /\ chanResult = "ok"
       => /\ Len(steps) >= 5
          /\ SubSeq(steps, 1, 5)
             = <<"open", "BIOCSBLEN", "BIOCSETIF", "BIOCIMMEDIATE", "BIOCGDLT">>
          /\ loopback => \A i \in 1..Len(steps) : steps[i] # "BIOCSHDRCMPLT"
          /\ ~loopback => (Len(steps) >= 6 /\ steps[6] = "BIOCSHDRCMPLT")
          /\ config.read_timeout # None => steps[Len(steps)] = "BIOCSRTIMEOUT"

\* C17: in the BPF channel() the kernel buffer length is set before the device is
\* bound to the interface on every execution; a successful execution makes its
\* device-control steps in the order open, buffer length, bind, immediate mode,
\* link-layer type, then feedback mode (loopback) or header-complete flag (not
\* loopback), then read timeout; and no step is made after one has failed.
C17_SetupOrder ==
    /\ [](IsBpf => StepsInOrder)
    /\ [][(IsBpf /\ chanResult = "err") => steps' = steps]_vars

\* C17 happens: a successful channel() on a FreeBSD loopback device with a read
\* timeout, seven steps
C17_Witness ==
    /\ pc = "done" /\ chanResult = "ok"
    /\ target_os = "freebsd" /\ loopback
    /\ Len(steps) = 7

\* the steps hold the request for feedback mode
FeedbackRequested == \E i \in 1..Len(steps) : steps[i] = "BIOCFEEDBACK"

\* the steps hold the setting of the header-complete flag
HeaderCompleteSet == \E i \in 1..Len(steps) : steps[i] = "BIOCSHDRCMPLT"

\* the parts of C18 that do not depend on the platform
LoopbackFlagAndBuffers ==
    /\ loopback <=> (dlt = "DLT_NULL")
    /\ Len(write_buffer) = config.write_buffer_size
    /\ Len(read_buffer) = IF loopback THEN config.read_buffer_size + EthHeaderSize
                          ELSE config.read_buffer_size
    /\ HeaderCompleteSet <=> ~loopback

\* C18 as stated: in the BPF channel() the loopback flag is true exactly when the
\* link-layer type is DLT_NULL; then the read buffer has read_buffer_size + 14
\* bytes, feedback mode is requested and the header-complete flag is not set;
\* otherwise the read buffer has read_buffer_size bytes and the flag is set; the
\* write buffer has write_buffer_size bytes.
C18_FeedbackOnLoopback ==
    (IsBpf /\ chanResult = "ok")
    => /\ LoopbackFlagAndBuffers
       /\ FeedbackRequested <=> loopback

\* C18 as amended: the same, with feedback mode requested on loopback on FreeBSD
\* only; on OS X channel() makes no such request.
C18_LoopbackSetup ==
    (IsBpf /\ chanResult = "ok")
    => /\ LoopbackFlagAndBuffers
       /\ FeedbackRequested <=> (loopback /\ target_os = "freebsd")

\* C18 happens: a channel on an OS X loopback device
C18_Witness ==
    /\ chanResult = "ok"
    /\ target_os = "macos" /\ loopback
    /\ Len(read_buffer) = config.read_buffer_size + EthHeaderSize

\* a duration in milliseconds, as a 32-bit argument
DurationMillis(timeout) ==
    AsI32(timeout[1].secs * 1000 + timeout[1].nanos \div 1000000)

\* C19: the read timeout applied to the device is the configured one: the WinPcap
\* channel() hands the driver read_timeout in milliseconds (seconds * 1000 +
\* sub-second milliseconds), or 0 when it is unset; the BPF channel() sets the read
\* timeout on the device exactly when read_timeout is set.
C19_ReadTimeoutAsConfigured ==
    /\ (IsWinPcap /\ read_to # None)
       => read_to = IF config.read_timeout = None THEN Some(0)
                    ELSE Some(DurationMillis(config.read_timeout))
    /\ (IsBpf /\ chanResult = "ok")
       => /\ (\E i \in 1..Len(steps) : steps[i] = "BIOCSRTIMEOUT")
             <=> config.read_timeout # None
          /\ read_to = config.read_timeout

-----------------------------------------------------------------------------
(* The Sender's calls, with the Receiver left alone *)

\* values of num_packets: small batches, and two whose product with 16 wraps
NumPackets == {0, 1, 2, 3, 16, 17}

\* values of packet_size: none, shorter than an Ethernet header, and frames
PacketSizes == {0, 13, 14, 16}

\* lengths of the frames given to send_to
FrameSizes == {14, 16, 48}

Tags == {1, 5}

SendConfigs ==
    [write_buffer_size : {48},
     read_buffer_size : {48},
     read_timeout : {None},
     write_timeout : {None, Some(OneSecond)},
     bpf_fd_attempts : {1}]

InitSend == InitWith({"macos", "windows"}, SendConfigs)

NextSend ==
    \/ ChannelStep
    \/ \E n \in NumPackets, sz \in PacketSizes, tag \in Tags : BuildAndSend(n, sz, tag)
    \/ SendChunk
    \/ \E tag \in Tags, n \in FrameSizes : SendTo(tag, n)

SpecSend == InitSend /\ [][NextSend]_vars

-----------------------------------------------------------------------------
(* Properties of the Sender, checked under SpecSend *)

\* the device operations among ops: the readiness waits and the writes
DeviceOps(ops) == SelectSeq(ops, LAMBDA o : o.op # "populate")

WritesOf(ops) == SelectSeq(ops, LAMBDA o : o.op = "write")

PopulatesOf(ops) == SelectSeq(ops, LAMBDA o : o.op = "populate")

SelectsOf(ops) == SelectSeq(ops, LAMBDA o : o.op = "select")

\* a call of build_and_send has returned
BuildAndSendReturned == call.kind = "build_and_send" /\ call.result # "running"

\* C3: for all count and frame_size with count * frame_size >= write_buffer_size,
\* build_and_send returns the capacity error (None) and has done nothing: no
\* readiness wait, no write, no call of populate, no change of the write buffer,
\* loopback or not.
C3_CapacityErrorWithoutIo ==
    (BuildAndSendReturned
        /\ call.num_packets * call.packet_size >= config.write_buffer_size)
    => (call.result = "None" /\ wire = <<>> /\ write_buffer = call.wb0)

\* C4: a successful build_and_send(1, |F|, builder of F) on a channel that is not
\* loopback hands the device exactly the bytes of F, all |F| of them, in exactly
\* one write.
C4_SendRoundTrip ==
    (BuildAndSendReturned /\ call.num_packets = 1 /\ call.result = "Ok" /\ ~loopback)
    => /\ Len(WritesOf(wire)) = 1
       /\ WritesOf(wire)[1].bytes = Frame(call.tag, call.packet_size)
       /\ Len(WritesOf(wire)[1].bytes) = call.packet_size

\* C4 happens: such a call has returned Ok, on either backend
C4_Witness ==
    /\ BuildAndSendReturned /\ call.num_packets = 1 /\ call.result = "Ok" /\ ~loopback
    /\ call.packet_size = 16
    /\ IsWinPcap

\* build_and_send(1, n, copy of Frame(tag, n)) from write buffer wb, when the
\* environment reports sel and wr: its result, what it did and the buffer it leaves
BuildAndSendOne(wb, capacity, tag, n, sel, wr) ==
    LET begun == BeginResult(1, n, capacity)
        r == ChunkResult(wb, 0, n, BatchLen(1, n), Frame(tag, n), sel, wr)
    IN IF begun # "running"
       THEN [result |-> begun, ops |-> <<>>, wb |-> wb]
       ELSE [result |-> r.result, ops |-> DeviceOps(r.ops), wb |-> r.wb]

\* C5: send_to(frame) is build_and_send(1, frame.length, copy-frame-into-slot): the
\* same kind of result, the same device operations with the same bytes, the same
\* write buffer afterwards; so the capacity error when frame.length >= write_buffer_size.
C5_SendToIsBuildAndSend ==
    (call.kind = "send_to" /\ call.result # "running")
    => [result |-> call.result, ops |-> DeviceOps(wire), wb |-> write_buffer]
       = BuildAndSendOne(call.wb0, config.write_buffer_size, call.tag,
                         call.packet_size, call.sel, call.wr)

\* C9: on a BPF Sender with a write timeout, a readiness wait that ends by the
\* timeout (select reports 0) makes the call return an OS error, and the frame is
\* not written: the wait is the last thing the call does.
C9_WriteTimeoutIsAnError ==
    (IsBpf /\ config.write_timeout # None)
    => \A i \in 1..Len(wire) :
         (wire[i].op = "select" /\ wire[i].ret = 0)
         => (i = Len(wire) /\ call.result = "Err")

\* the bytes the device gets for slot i of the batch, as its callback filled it
SlotBytes(i) ==
    SubSeq(Frame(call.tag + i - 1, call.packet_size), SendOffset + 1, call.packet_size)

\* C10: when slot k is the first to report an OS error, build_and_send returns it
\* at once: slots 1..k-1 were each populated and written once, in order, and are
\* not taken back; populate was called for slots 1..k only; nothing is done for a
\* slot after k.
C10_PartialBatchOnError ==
    (call.kind = "build_and_send" /\ call.result = "Err")
    => /\ Len(PopulatesOf(wire)) = call.k
       /\ \A i \in 1..call.k : PopulatesOf(wire)[i].slot = i
       /\ IsBpf => Len(SelectsOf(wire)) = call.k
       /\ Len(WritesOf(wire)) \in {call.k - 1, call.k}
       /\ \A i \in 1..Len(WritesOf(wire)) :
            /\ WritesOf(wire)[i].slot = i
            /\ i < call.k => WritesOf(wire)[i].bytes = SlotBytes(i)
            /\ WriteFails(WritesOf(wire)[i].ret) <=> (i = call.k)
       /\ Len(WritesOf(wire)) = call.k - 1 => SelectFails(wire[Len(wire)].ret)

\* what the call did to the slots: the calls of populate and the writes, in order
SlotOps(ops) == SelectSeq(ops, LAMBDA o : o.op # "select")

\* C13: a successful build_and_send(count, frame_size, populate) calls populate
\* count times and writes count times, populate(slot i) then write(slot i) for
\* i = 1..count, and the i-th write carries the bytes of slot i as the i-th callback
\* filled it, for count > 1 too and for every count and frame_size of the machine
\* word.
C13_BatchOrderAndContent ==
    (BuildAndSendReturned /\ call.result = "Ok")
    => /\ Len(PopulatesOf(wire)) = call.num_packets
       /\ Len(WritesOf(wire)) = call.num_packets
       /\ \A i \in 1..call.num_packets :
            /\ SlotOps(wire)[2 * i - 1].op = "populate"
            /\ SlotOps(wire)[2 * i - 1].slot = i
            /\ SlotOps(wire)[2 * i].op = "write"
            /\ SlotOps(wire)[2 * i].slot = i
            /\ SlotOps(wire)[2 * i].bytes = SlotBytes(i)

\* C14: on the BPF Sender every write of build_and_send and send_to comes right
\* after one readiness wait, and that wait watches the channel's own descriptor
\* for writing: the descriptor is below the wait's nfds and the Sender's fd_set is
\* the set the wait checks for writability.
C14_WaitMonitorsDevice ==
    IsBpf
    => \A i \in 1..Len(wire) :
         wire[i].op = "write"
         => /\ i > 1
            /\ wire[i - 1].op = "select"
            /\ i > 2 => wire[i - 2].op # "select"
            /\ fd < wire[i - 1].nfds
            /\ wire[i - 1].writefds = "fd_set"

\* C21: build_and_send returns the capacity error only when count * frame_size is
\* strictly greater than the write buffer's capacity: with count * frame_size <=
\* capacity, also when it fills the buffer exactly, the call goes on to populate
\* and write its slots.
C21_CapacityErrorOnlyWhenExceeded ==
    (BuildAndSendReturned
        /\ call.num_packets * call.packet_size <= config.write_buffer_size)
    => /\ call.result # "None"
       /\ (call.result \in {"Ok", "Err"} /\ call.num_packets * call.packet_size > 0)
          => PopulatesOf(wire) # <<>>

-----------------------------------------------------------------------------
(* The Receiver's calls, with the Sender left alone *)

\* the packets that arrive: (tag, length of the Ethernet frame)
Arrivals == {<<1, 15>>, <<2, 17>>}

RecvConfigs ==
    [write_buffer_size : {48},
     read_buffer_size : {144},
     read_timeout : {Some(OneSecond)},
     write_timeout : {None},
     bpf_fd_attempts : {1}]

InitRecv == InitWith(AllOses, RecvConfigs)

NextRecv ==
    \/ ChannelStep
    \/ Iter
    \/ NextRead
    \/ NextQueued
    \/ \E a \in Arrivals : Capture(a[1], a[2])

SpecRecv == InitRecv /\ [][NextRecv]_vars

\* the frame next() is to return for a captured packet: the packet itself, or on
\* loopback a zeroed Ethernet header and what follows the OS's 4-byte header
ExpectedFrame(data) ==
    IF IsBpf /\ loopback
    THEN Zeros(EthHeaderSize) \o SubSeq(data, Len(AFHeader) + 1, Len(data))
    ELSE data

\* C6: when one device read brings n well-formed records R1..Rn, the n calls of
\* next() that follow on the same iterator return the payloads of R1, .., Rn in
\* that order, each once: the i-th frame is the payload of Ri and n - i records
\* are left in the queue.
C6_FifoDelivery ==
    (iterating /\ last.result = "Ok")
    => /\ last.idx \in 1..Len(last.batch)
       /\ last.frame = ExpectedFrame(last.batch[last.idx])
       /\ Len(packets) = Len(last.batch) - last.idx

\* C6 happens: the third of three records of one read was delivered
C6_Witness ==
    /\ iterating /\ last.result = "Ok"
    /\ Len(last.batch) = 3 /\ last.idx = 3
    /\ last.batch[1] # last.batch[3]

\* C8: when next() finds the queue empty and the device read fails or brings no
\* data (the read timeout expired on an idle channel), next() returns an error: it
\* does not go on to pop from the empty queue. The queue stays empty, and the next
\* call reads the device again.
C8_EmptyReadIsAnError ==
    (last.didRead /\ last.batch = <<>>)
    => (last.result = "Err" /\ packets = <<>>)

\* C11: during the scan of next(), in both backends and for every stream of
\* records that are complete within the bytes read, the scan cursor never takes a
\* value greater than the number of bytes the read reported, also when the last
\* record ends at the byte count and that end is not word-aligned.
C11_CursorWithinBytesRead ==
    scanned.cursor <= scanned.nread

\* C15: next() reads the device if and only if its queue is empty at the call; with
\* a queue that holds something it does no device I/O and returns the next entry.
\* So every record a read queued is delivered once, in order, before the next read,
\* and a read takes up the packets captured since, in capture order.
C15_ReadOnlyWhenQueueEmpty ==
    [][/\ (reads' # reads)
          => /\ packets = <<>>
             /\ last.result = "Ok" => last.idx = Len(last.batch)
       /\ (iterating /\ packets = <<>> /\ last' # last) => reads' = reads + 1
       /\ (iterating /\ packets # <<>> /\ last' # last)
          => /\ reads' = reads
             /\ kernelBuf' = kernelBuf
             /\ ~last'.didRead
             /\ last'.batch = last.batch
             /\ last'.idx = last.idx + 1
             /\ last'.frame = ExpectedFrame(last.batch[last.idx + 1])
             /\ packets' = Tail(packets)
       /\ (reads' # reads /\ last'.result = "Ok")
          => /\ last'.batch = kernelBuf
             /\ kernelBuf' = <<>>
             /\ last'.idx = 1
             /\ last'.frame = ExpectedFrame(kernelBuf[1])
             /\ Len(packets') = Len(kernelBuf) - 1
      ]_vars

\* C15 happens: the second read brought two records and both were delivered
C15_Witness ==
    /\ iterating /\ reads = 2
    /\ last.result = "Ok" /\ ~last.didRead
    /\ Len(last.batch) = 2 /\ last.idx = 2

\* where record k of a read of the packets pkts begins in the bytes read
RecordOffset(pkts, k) ==
    IF k = 1 THEN 0 ELSE BPF_WORDALIGN(Len(RecordBytes(SubSeq(pkts, 1, k - 1))))

\* where the captured bytes of record k begin in the read buffer: behind the room
\* kept for the header, the records before it and its own record header
CapturedAt(pkts, k) == buffer_offset + RecordOffset(pkts, k) + DeviceHdrLen

\* C23: on a loopback BPF channel the zero-filling of the synthesized header, when
\* next() delivers a record, changes no byte of the payload of a record still in
\* the queue, nor of the record delivered: for well-formed records with a record
\* header of at least 10 bytes the 14 zeroed bytes lie inside the delivered
\* record's own record header and 4-byte loopback header, and the queue entries
\* left point at payloads that are as captured.
C23_ZeroingSparesPayloads ==
    (IsBpf /\ loopback /\ iterating /\ last.result = "Ok")
    => /\ DeviceHdrLen >= 10
       /\ last.start >= buffer_offset + RecordOffset(last.batch, last.idx)
       /\ last.start + buffer_offset
          = CapturedAt(last.batch, last.idx) + Len(AFHeader)
       /\ \A k \in 1..Len(last.batch) :
            SubSeq(read_buffer,
                   CapturedAt(last.batch, k) + Len(AFHeader) + 1,
                   CapturedAt(last.batch, k) + Len(last.batch[k]))
            = SubSeq(last.batch[k], Len(AFHeader) + 1, Len(last.batch[k]))
       /\ \A i \in 1..Len(packets) :
            packets[i] = <<CapturedAt(last.batch, last.idx + i) + Len(AFHeader)
                           - buffer_offset,
                           Len(last.batch[last.idx + i]) - Len(AFHeader)>>

\* C23 happens: on loopback the first of three records was delivered, and a record
\* with 3 bytes of payload waits in the queue
C23_Witness ==
    /\ IsBpf /\ loopback /\ iterating /\ last.result = "Ok"
    /\ last.idx = 1 /\ Len(packets) = 2
    /\ Len(last.batch[2]) = 7

-----------------------------------------------------------------------------
(* The scan and the frames of next(), for a device that may misreport a record *)

\* the packets that arrive: the shortest Ethernet frame, and a longer one
ScanArrivals == {<<1, 14>>, <<2, 16>>}

ScanConfigs ==
    [write_buffer_size : {48},
     read_buffer_size : {96},
     read_timeout : {None},
     write_timeout : {None},
     bpf_fd_attempts : {1}]

InitScan == InitDevice(AllOses, ScanConfigs, DeviceFaults)

NextScan ==
    \/ ChannelStep
    \/ Iter
    \/ NextRead
    \/ NextQueued
    \/ \E a \in ScanArrivals : Capture(a[1], a[2])

SpecScan == InitScan /\ [][NextScan]_vars

\* C12: in every reachable state, whatever the record headers the device reports
\* (a header length or captured length that runs past the bytes read, on loopback
\* a captured length below the 4-byte loopback header), every queued (offset,
\* length) has offset + length <= the capacity of the read buffer, and so has the
\* entry next() popped for the frame it returns.
C12_QueuedRangesInBuffer ==
    /\ \A i \in 1..Len(packets) : packets[i][1] + packets[i][2] <= Len(read_buffer)
    /\ last.start + last.len <= Len(read_buffer)

\* C16: for a well-formed record of captured length c, on a loopback BPF channel
\* (c >= 4) next() returns a frame of length (c - 4) + 14: 14 zero bytes, then the
\* c - 4 captured bytes behind the record's 4-byte loopback header; on a channel
\* that is not loopback the frame is the c captured bytes and no byte of the buffer
\* is zeroed.
C16_LoopbackFrameShape ==
    (deviceFault = "none" /\ iterating /\ last.batch # <<>>)
    => /\ last.result = "Ok"
       /\ LET data == last.batch[last.idx]
              c == Len(data)
          IN IF IsBpf /\ loopback
             THEN c >= 4
                  => /\ last.len = (c - 4) + 14
                     /\ Len(last.frame) = last.len
                     /\ SubSeq(last.frame, 1, 14) = Zeros(14)
                     /\ SubSeq(last.frame, 15, last.len) = SubSeq(data, 5, c)
             ELSE /\ last.len = c
                  /\ last.frame = data
                  /\ SubSeq(read_buffer, 1, scanned.nread) = RecordBytes(last.batch)

\* C16 happens: on loopback, a record of captured length 4, the second of its read
C16_Witness ==
    /\ deviceFault = "none" /\ iterating /\ last.result = "Ok"
    /\ IsBpf /\ loopback
    /\ last.idx = 2
    /\ Len(last.batch[2]) = 4
    /\ last.len = 14

-----------------------------------------------------------------------------
(* The two owners: Sender and Receiver at work and dropped, in any order *)

LifeConfigs ==
    [write_buffer_size : {48},
     read_buffer_size : {48},
     read_timeout : {Some(OneSecond)},
     write_timeout : {Some(OneSecond)},
     bpf_fd_attempts : {1}]

InitLife == InitWith({"macos", "windows"}, LifeConfigs)

NextLife ==
    \/ ChannelStep
    \/ BuildAndSend(2, 14, 1)
    \/ SendChunk
    \/ SendTo(1, 14)
    \/ Iter
    \/ NextRead
    \/ NextQueued
    \/ Capture(1, 15)
    \/ DropIter
    \/ DropSender
    \/ DropReceiver

SpecLife == InitLife /\ [][NextLife]_vars

\* C2: after a successful channel(), however the operations of the Sender, those
\* of the Receiver and its iterator, and the two drops interleave, the device is
\* closed once, and only when the last of the two owners is dropped; no read,
\* write or readiness wait is issued on the closed device.
C2_ClosedOnceByLastOwner ==
    chanResult = "ok"
    => /\ closes <= 1
       /\ (closes = 1) <=> (~senderAlive /\ ~receiverAlive)
       /\ (dev = "open") <=> (senderAlive \/ receiverAlive)
       /\ ~ioAfterClose

\* C2 happens: both owners worked, the Receiver went first, the Sender last
C2_Witness ==
    /\ chanResult = "ok"
    /\ ~senderAlive /\ ~receiverAlive
    /\ call.result = "Ok" /\ last.result = "Ok"
    /\ closes = 1

-----------------------------------------------------------------------------
(* Sender and Receiver at work for the life of the channel *)

\* batches of 14-byte frames: one frame, two, and four, which is too large
WorkBatches == {1, 2, 4}

WorkConfigs ==
    [write_buffer_size : {48},
     read_buffer_size : {48},
     read_timeout : {None},
     write_timeout : {Some(OneSecond)},
     bpf_fd_attempts : {1}]

InitWork == InitWith({"macos", "windows"}, WorkConfigs)

NextWork ==
    \/ ChannelStep
    \/ \E n \in WorkBatches : BuildAndSend(n, 14, 1)
    \/ SendChunk
    \/ SendTo(1, 14)
    \/ Iter
    \/ NextRead
    \/ NextQueued
    \/ Capture(1, 15)

SpecWork == InitWork /\ [][NextWork]_vars

\* C20: after any sequence of build_and_send, send_to and next(), whatever each
\* returned, the capacity the capacity check uses is the configured
\* write_buffer_size and the read buffer has the length it was created with; in
\* WinPcap the packet's Length, set to frame_size around each send, is back at its
\* value whenever build_and_send has returned.
C20_CapacityFixed ==
    chanResult = "ok"
    => /\ Capacity = config.write_buffer_size
       /\ Len(write_buffer) = config.write_buffer_size
       /\ Len(read_buffer) = allocated_read_buffer_size
       /\ IsWinPcap => pktLength = config.write_buffer_size

\* C20 happens: on WinPcap the second call was a batch whose second send failed,
\* and next() has returned a frame
C20_Witness ==
    /\ IsWinPcap /\ chanResult = "ok"
    /\ call.no = 2 /\ call.kind = "build_and_send"
    /\ call.result = "Err" /\ call.k = 2
    /\ last.result = "Ok"

-----------------------------------------------------------------------------
(* Loopback: what the Sender writes comes back to the Receiver *)

\* lengths of the frames sent on loopback
LoopFrameSizes == {15, 17}

LoopConfigs ==
    [write_buffer_size : {48},
     read_buffer_size : {96},
     read_timeout : {Some(OneSecond)},
     write_timeout : {Some(OneSecond)},
     bpf_fd_attempts : {1}]

InitLoop == InitWith({"freebsd", "macos"}, LoopConfigs)

NextLoop ==
    \/ BpfChannelStep
    \/ Construct
    \/ \E tag \in Tags, n \in LoopFrameSizes : SendTo(tag, n)
    \/ Iter
    \/ NextRead
    \/ NextQueued

SpecLoop == InitLoop /\ [][NextLoop]_vars

\* send_to(F) has succeeded and the one next() after it returned a frame
SentThenReceived ==
    /\ IsBpf /\ loopback
    /\ call.kind = "send_to" /\ call.result = "Ok" /\ call.no = 1
    /\ iterating /\ reads = 1 /\ last.result = "Ok"

\* the frame F given to send_to
SentFrame == Frame(call.tag, call.packet_size)

\* what follows the Ethernet header in a frame
PayloadOf(frame) == SubSeq(frame, EthHeaderSize + 1, Len(frame))

\* the frame received has F's payload behind 14 zero bytes
EchoedPayload ==
    /\ PayloadOf(last.frame) = PayloadOf(SentFrame)
    /\ SubSeq(last.frame, 1, EthHeaderSize) = Zeros(EthHeaderSize)
    /\ Len(last.frame) = last.len

\* C7 as stated: on a loopback BPF channel whose device echoes the frame back as
\* one record, send_to(F) then next() yields F's payload behind 14 zero bytes, with
\* a reported length of F's length plus the header size.
C7_LengthIsFramePlusHeader ==
    SentThenReceived
    => (EchoedPayload /\ last.len = Len(SentFrame) + EthHeaderSize)

\* C7 as amended: on a loopback BPF channel whose device echoes the frame back as
\* one record, send_to(F) then next() yields F's payload behind 14 zero bytes, with
\* a reported length of F's length: the length of F's payload plus the header size.
C7_LoopbackRoundTrip ==
    SentThenReceived
    => (EchoedPayload /\ last.len = Len(SentFrame)
                      /\ last.len = Len(PayloadOf(SentFrame)) + EthHeaderSize)

\* C7 happens: a frame of 17 bytes went out and came back
C7_Witness ==
    /\ SentThenReceived
    /\ call.packet_size = 17
    /\ Len(PayloadOf(last.frame)) = 3

=============================================================================
